---- MODULE Spec2Model ----
(***************************************************************************)
(* Model of examples/receiver-python.py: a Flask webhook receiver that     *)
(* checks an HMAC-SHA256 signature with a freshness window and answers     *)
(* two kinds of verification handshake.                                    *)
(*                                                                         *)
(* Conventions.  Header values and bodies are TLA+ strings.  The character *)
(* "~" stands for the byte 0xFF: in a body it makes the bytes invalid      *)
(* UTF-8, in a header it is the non-ASCII character U+00FF (WSGI headers   *)
(* are decoded as latin-1).  HMAC-SHA256 is a symbolic injective keyed     *)
(* function.  Printed lines are kept without their emoji, and str(e) of a  *)
(* caught exception is the name of its class.                              *)
(*                                                                         *)
(* The variable prior is a history variable: the program keeps no record   *)
(* of earlier requests, and the model keeps the last completed delivery    *)
(* only so that two deliveries can be compared.                            *)
(***************************************************************************)
EXTENDS Integers, Sequences, FiniteSets, TLC

VARIABLES secret, now, phase, req, handledAt, resp, log, trace, prior

vars == <<secret, now, phase, req, handledAt, resp, log, trace, prior>>

(***************************************************************************)
(* Bounds and program constants                                            *)
(***************************************************************************)
\* verify_webhook_signature: "if abs(current_time - int(timestamp)) > 300"
TOLERANCE == 300

\* the clock value of the first state, and how many seconds it may advance
StartTime == 1000
MaxTicks == 1

\* how many deliveries a run of the replay specification follows
MaxDeliveries == 3

\* os.environ.get('WEBHOOK_SECRET', 'whsec_your_secret_here')
DefaultSecret == "whsec_your_secret_here"
Secrets == {DefaultSecret, "s3cr3t"}

\* a key the sender of a forged request signs with
ForgedKey == "guess"

(***************************************************************************)
(* Strings                                                                 *)
(***************************************************************************)
Char(s, i) == SubSeq(s, i, i)

Contains(s, t) ==
    \E i \in 1..(Len(s) - Len(t) + 1) : SubSeq(s, i, i + Len(t) - 1) = t

HighByte == "~"

Digits == {"0", "1", "2", "3", "4", "5", "6", "7", "8", "9"}

DigitValue(c) ==
    CASE c = "0" -> 0 [] c = "1" -> 1 [] c = "2" -> 2 [] c = "3" -> 3
      [] c = "4" -> 4 [] c = "5" -> 5 [] c = "6" -> 6 [] c = "7" -> 7
      [] c = "8" -> 8 [] c = "9" -> 9

\* str.isspace() for the characters of the model's alphabet
IsSpace(c) == c \in {" ", "\t", "\n", "\r"}

RECURSIVE LStrip(_)
LStrip(s) ==
    IF Len(s) > 0 /\ IsSpace(Char(s, 1)) THEN LStrip(SubSeq(s, 2, Len(s))) ELSE s

RECURSIVE RStrip(_)
RStrip(s) ==
    IF Len(s) > 0 /\ IsSpace(Char(s, Len(s)))
    THEN RStrip(SubSeq(s, 1, Len(s) - 1)) ELSE s

Strip(s) == LStrip(RStrip(s))

\* the digit part of an integer literal: digits, single underscores between
IsDigitRun(s) ==
    /\ Len(s) > 0
    /\ \A i \in 1..Len(s) : Char(s, i) \in Digits \cup {"_"}
    /\ Char(s, 1) # "_"
    /\ Char(s, Len(s)) # "_"
    /\ \A i \in 1..(Len(s) - 1) : ~(Char(s, i) = "_" /\ Char(s, i + 1) = "_")

RECURSIVE DigitRunValue(_, _)
DigitRunValue(s, acc) ==
    IF Len(s) = 0 THEN acc
    ELSE IF Char(s, 1) = "_" THEN DigitRunValue(SubSeq(s, 2, Len(s)), acc)
    ELSE DigitRunValue(SubSeq(s, 2, Len(s)), 10 * acc + DigitValue(Char(s, 1)))

\* the value of an integer literal without its sign, negated when asked
ParseDigits(negative, body) ==
    IF IsDigitRun(body)
    THEN [ok |-> TRUE,
          value |-> IF negative THEN 0 - DigitRunValue(body, 0) ELSE DigitRunValue(body, 0)]
    ELSE [ok |-> FALSE, value |-> 0]

ParseStripped(t) ==
    IF Len(t) > 0 /\ Char(t, 1) \in {"+", "-"}
    THEN ParseDigits(Char(t, 1) = "-", SubSeq(t, 2, Len(t)))
    ELSE ParseDigits(FALSE, t)

\* Python int(str): [ok |-> FALSE] stands for ValueError
ParseInt(s) == ParseStripped(Strip(s))

Abs(n) == IF n < 0 THEN 0 - n ELSE n

(***************************************************************************)
(* Signatures                                                              *)
(***************************************************************************)
\* hmac.new(key, msg, hashlib.sha256).hexdigest(), symbolic and injective
HmacHex(key, msg) == "hmac<" \o key \o "|" \o msg \o ">"

\* f"{timestamp}.{payload}"
SigBasestring(timestamp, payload) == timestamp \o "." \o payload

ExpectedSignature(key, timestamp, payload) ==
    "v1=" \o HmacHex(key, SigBasestring(timestamp, payload))

IsAscii(s) == ~Contains(s, HighByte)

\* a comparison that looks at the lengths only
CompareDigestLength(a, b) ==
    IF IsAscii(a) /\ IsAscii(b)
    THEN [raised |-> "", equal |-> Len(a) = Len(b)]
    ELSE [raised |-> "TypeError", equal |-> FALSE]

\* a comparison that looks at the version prefix only
CompareDigestPrefix(a, b) ==
    IF IsAscii(a) /\ IsAscii(b)
    THEN [raised |-> "", equal |-> SubSeq(a, 1, 3) = SubSeq(b, 1, 3)]
    ELSE [raised |-> "TypeError", equal |-> FALSE]

\* hmac.compare_digest on two str: TypeError unless both are ASCII
CompareDigest(a, b) ==
    IF IsAscii(a) /\ IsAscii(b)
    THEN [raised |-> "", equal |-> a = b]
    ELSE [raised |-> "TypeError", equal |-> FALSE]

\* the freshness test, without the absolute value
TooOldPastOnly(current_time, timestamp) == current_time - timestamp > TOLERANCE

\* the freshness test, exclusive at the boundary
TooOldAtBoundary(current_time, timestamp) == Abs(current_time - timestamp) >= TOLERANCE

\* abs(current_time - int(timestamp)) > 300
TooOld(current_time, timestamp) == Abs(current_time - timestamp) > TOLERANCE

\* lines 35-44: the expected signature is computed and compared
\* raised # "" : the exception that leaves the function
\* out         : the lines the call prints
\* steps       : the computations the call performed
Compared(cmp) ==
    IF cmp.raised # ""
    THEN [result |-> FALSE, raised |-> cmp.raised, out |-> <<>>,
          steps |-> {"freshness", "digest", "compare"}]
    ELSE [result |-> cmp.equal, raised |-> "", out |-> <<>>,
          steps |-> {"freshness", "digest", "compare"}]

\* a verifier that computes and compares the digest before it looks at the age
VerifyAtDigestFirst(key, t, payload, signature, timestamp, ts) ==
    IF ~ts.ok
    THEN [result |-> FALSE, raised |-> "ValueError", out |-> <<>>,
          steps |-> {"freshness"}]
    ELSE IF TooOld(t, ts.value)
    THEN [result |-> FALSE, raised |-> "",
          out |-> <<"Request timestamp too old">>,
          steps |-> {"freshness", "digest", "compare"}]
    ELSE Compared(CompareDigest(ExpectedSignature(key, timestamp, payload), signature))

\* lines 30-44, int(timestamp) evaluated to ts
VerifyAt(key, t, payload, signature, timestamp, ts) ==
    IF ~ts.ok
    THEN [result |-> FALSE, raised |-> "ValueError", out |-> <<>>,
          steps |-> {"freshness"}]
    ELSE IF TooOld(t, ts.value)
    THEN [result |-> FALSE, raised |-> "",
          out |-> <<"Request timestamp too old">>,
          steps |-> {"freshness"}]
    ELSE Compared(CompareDigest(ExpectedSignature(key, timestamp, payload), signature))

\* verify_webhook_signature(payload, signature, timestamp) at clock value t
verify_webhook_signature(key, t, payload, signature, timestamp) ==
    VerifyAt(key, t, payload, signature, timestamp, ParseInt(timestamp))

(***************************************************************************)
(* JSON documents.  A value is [t, s]: its Python type and its text.       *)
(* The parser covers objects and arrays of scalars (strings without        *)
(* escapes, integers, true, false, null) with optional whitespace.         *)
(***************************************************************************)
None == [t |-> "None", s |-> "None"]

Str(text) == [t |-> "str", s |-> text]

ParseFail == [ok |-> FALSE, next |-> 0, val |-> None, keys |-> <<>>, vals |-> <<>>]

At(s, i) == IF i >= 1 /\ i <= Len(s) THEN Char(s, i) ELSE ""

RECURSIVE SkipWs(_, _)
SkipWs(s, i) == IF IsSpace(At(s, i)) THEN SkipWs(s, i + 1) ELSE i

\* index of the quote that closes a string whose content starts at i, or 0
RECURSIVE ScanQuote(_, _)
ScanQuote(s, i) ==
    IF i > Len(s) THEN 0
    ELSE IF Char(s, i) = "\"" THEN i
    ELSE IF Char(s, i) \in {"\\", "\n", "\t", "\r"} THEN 0
    ELSE ScanQuote(s, i + 1)

\* index after the digits that start at i
RECURSIVE ScanDigits(_, _)
ScanDigits(s, i) == IF At(s, i) \in Digits THEN ScanDigits(s, i + 1) ELSE i

HasPrefixAt(s, i, word) ==
    i >= 1 /\ i + Len(word) - 1 <= Len(s) /\ SubSeq(s, i, i + Len(word) - 1) = word

ParseOk(n, v) == [ok |-> TRUE, next |-> n, val |-> v, keys |-> <<>>, vals |-> <<>>]

\* a string whose opening quote is at i and whose closing quote is at q
StringAt(s, i, q) ==
    IF q = 0 THEN ParseFail ELSE ParseOk(q + 1, Str(SubSeq(s, i + 1, q - 1)))

\* an integer that starts at i, its digits at d0 and ending before d1
IntAt(s, i, d0, d1) ==
    IF d1 > d0 /\ ~(At(s, d0) = "0" /\ d1 > d0 + 1) /\ At(s, d1) \notin {".", "e", "E"}
    THEN ParseOk(d1, [t |-> "int", s |-> SubSeq(s, i, d1 - 1)])
    ELSE ParseFail

NumberAt(s, i, d0) == IntAt(s, i, d0, ScanDigits(s, d0))

\* the scalar that starts at i
ScalarAt(s, i) ==
    IF At(s, i) = "\"" THEN StringAt(s, i, ScanQuote(s, i + 1))
    ELSE IF HasPrefixAt(s, i, "null") THEN ParseOk(i + 4, None)
    ELSE IF HasPrefixAt(s, i, "true") THEN ParseOk(i + 4, [t |-> "bool", s |-> "True"])
    ELSE IF HasPrefixAt(s, i, "false") THEN ParseOk(i + 5, [t |-> "bool", s |-> "False"])
    ELSE NumberAt(s, i, IF At(s, i) = "-" THEN i + 1 ELSE i)

ParseScalar(s, i0) == ScalarAt(s, SkipWs(s, i0))

DictResult(n, keys, vals) ==
    [ok |-> TRUE, next |-> n, val |-> [t |-> "dict", s |-> ""], keys |-> keys, vals |-> vals]

ListResult(n) ==
    [ok |-> TRUE, next |-> n, val |-> [t |-> "list", s |-> ""], keys |-> <<>>, vals |-> <<>>]

\* the members of an object, the opening brace already read
RECURSIVE ParseMembers(_, _, _, _)

\* after a member: m is the place of the comma or the closing brace
MemberEnd(s, m, keys, vals) ==
    IF At(s, m) = "," THEN ParseMembers(s, m + 1, keys, vals)
    ELSE IF At(s, m) = "}" THEN DictResult(m + 1, keys, vals)
    ELSE ParseFail

MemberValue(s, key, v, keys, vals) ==
    IF ~v.ok THEN ParseFail
    ELSE MemberEnd(s, SkipWs(s, v.next), Append(keys, key), Append(vals, v.val))

\* a member whose name is quoted from i to q, the colon expected at colon
MemberName(s, i, q, colon, keys, vals) ==
    IF At(s, colon) # ":" THEN ParseFail
    ELSE MemberValue(s, SubSeq(s, i + 1, q - 1), ParseScalar(s, colon + 1), keys, vals)

MemberQuoted(s, i, q, keys, vals) ==
    IF q = 0 THEN ParseFail ELSE MemberName(s, i, q, SkipWs(s, q + 1), keys, vals)

MemberAt(s, i, keys, vals) ==
    IF keys = <<>> /\ At(s, i) = "}" THEN DictResult(i + 1, <<>>, <<>>)
    ELSE IF At(s, i) # "\"" THEN ParseFail
    ELSE MemberQuoted(s, i, ScanQuote(s, i + 1), keys, vals)

ParseMembers(s, i0, keys, vals) == MemberAt(s, SkipWs(s, i0), keys, vals)

\* the elements of an array, the opening bracket already read
RECURSIVE ParseElements(_, _, _)

ElementEnd(s, m) ==
    IF At(s, m) = "," THEN ParseElements(s, m + 1, FALSE)
    ELSE IF At(s, m) = "]" THEN ListResult(m + 1)
    ELSE ParseFail

ElementValue(s, v) == IF ~v.ok THEN ParseFail ELSE ElementEnd(s, SkipWs(s, v.next))

ElementAt(s, i, first) ==
    IF first /\ At(s, i) = "]" THEN ListResult(i + 1)
    ELSE ElementValue(s, ScalarAt(s, i))

ParseElements(s, i0, first) == ElementAt(s, SkipWs(s, i0), first)

\* the value that starts at i
ValueAt(s, i) ==
    IF At(s, i) = "{" THEN ParseMembers(s, i + 1, <<>>, <<>>)
    ELSE IF At(s, i) = "[" THEN ParseElements(s, i + 1, TRUE)
    ELSE ScalarAt(s, i)

\* nothing but whitespace may follow the value
Complete(s, v) == IF v.ok /\ SkipWs(s, v.next) = Len(s) + 1 THEN v ELSE ParseFail

\* json.loads(text)
JsonLoads(s) == Complete(s, ValueAt(s, SkipWs(s, 1)))

(***************************************************************************)
(* Flask request and response                                              *)
(***************************************************************************)
\* request.headers.get(name): None when absent
NoHeader == [present |-> FALSE, value |-> ""]

Header(v) == [present |-> TRUE, value |-> v]

\* Python truth value of an optional string
Truthy(h) == h.present /\ h.value # ""

\* request.data.decode('utf-8'): UnicodeDecodeError on bytes that are not UTF-8
Utf8Decode(data) ==
    IF Contains(data, HighByte)
    THEN [raised |-> "UnicodeDecodeError", text |-> ""]
    ELSE [raised |-> "", text |-> data]

\* request.json: an HTTP error unless the content type is JSON and the body parses
JsonOf(contentType, doc) ==
    IF contentType # "application/json"
    THEN [raised |-> "UnsupportedMediaType", doc |-> ParseFail]
    ELSE IF ~doc.ok THEN [raised |-> "BadRequest", doc |-> ParseFail]
    ELSE [raised |-> "", doc |-> doc]

GetJson(contentType, data) == JsonOf(contentType, JsonLoads(data))

\* an event whose get never fails
HasGetAlways(doc) == TRUE

\* event.get(key): AttributeError unless the event is a dict; the last of
\* several members with the same name wins, None when there is none
HasGet(doc) == doc.val.t = "dict"

Last(indices) == CHOOSE i \in indices : \A j \in indices : j <= i

Lookup(doc, hits) == IF hits = {} THEN None ELSE doc.vals[Last(hits)]

Get(doc, key) == Lookup(doc, {i \in 1..Len(doc.keys) : doc.keys[i] = key})

NoJson == [keys |-> <<>>, vals |-> <<>>]

\* return text, status
TextResponse(text, status) ==
    [status |-> status, mimetype |-> "text/html", text |-> text, json |-> NoJson,
     fault |-> ""]

\* return jsonify({'challenge': value}), status: the body is the serialised
\* document (its whitespace depends on the Flask configuration)
JsonifyChallenge(value, status) ==
    [status |-> status, mimetype |-> "application/json", text |-> "",
     json |-> [keys |-> <<"challenge">>, vals |-> <<value>>], fault |-> ""]

\* an exception that leaves the view function: Flask answers 500
FaultResponse(exception) ==
    [status |-> 500, mimetype |-> "text/html", text |-> "Internal Server Error",
     json |-> NoJson, fault |-> exception]

Banner == <<"Webhook received">>

\* a header check that lets every request through
MissingHeadersNever(signature, timestamp) == FALSE

\* a header check that rejects only when both headers are missing
MissingHeadersBoth(signature, timestamp) == ~Truthy(signature) /\ ~Truthy(timestamp)

\* a header check that tests for None only
MissingHeadersIsNone(signature, timestamp) == ~signature.present \/ ~timestamp.present

\* if not signature or not timestamp
MissingHeaders(signature, timestamp) == ~Truthy(signature) \/ ~Truthy(timestamp)

\* a handshake answer that echoes the token
RespondVerificationEcho(token) == TextResponse(token.s, 200)

\* return 'OK', 200 for type 'webhook.verification'
RespondVerification(token) == TextResponse("OK", 200)

\* a challenge answer that reads the wrong member
RespondChallengeToken(doc) == JsonifyChallenge(Get(doc, "verification_token"), 200)

\* return jsonify({'challenge': event.get('challenge')}), 200
RespondChallenge(doc) == JsonifyChallenge(Get(doc, "challenge"), 200)

\* str(value) as an f-string or print renders it
PyStr(value) == value.s

(***************************************************************************)
(* The view function.  The result is the response, the lines printed and   *)
(* the set of stages the call went through.                                *)
(***************************************************************************)
Outcome(response, out, stages) == [resp |-> response, log |-> out, trace |-> stages]

\* except Exception as e
Caught(e, out, stages) ==
    Outcome(TextResponse("Invalid payload", 400),
            Banner \o out \o <<"Error processing webhook: " \o e>>, stages)

\* lines 86-99: the event is accepted
Accept(r, event, v) ==
    Outcome(TextResponse("OK", 200),
            Banner \o <<"Signature verified",
                        "Event details:",
                        "   ID: " \o PyStr(Get(event, "id")),
                        "   Type: " \o PyStr(Get(event, "type")),
                        "   Webhook ID: " \o (IF r.id.present THEN r.id.value ELSE "None"),
                        "Event data:",
                        PyStr(Get(event, "data")),
                        "Webhook processed successfully">>,
            {"headers", "decode", "parse", "classify", "verify", "accept"} \cup v.steps)

\* lines 82-99, the call of verify_webhook_signature evaluated to v
Verified(r, event, v) ==
    IF v.raised # ""
    THEN Caught(v.raised, v.out,
                {"headers", "decode", "parse", "classify", "verify"} \cup v.steps)
    ELSE IF ~v.result
    THEN Outcome(TextResponse("Invalid signature", 401),
                 Banner \o v.out \o <<"Invalid signature!">>,
                 {"headers", "decode", "parse", "classify", "verify"} \cup v.steps)
    ELSE Accept(r, event, v)

\* a dispatch that verifies every event, handshakes included
ClassifyVerifyAll(key, t, r, payload, event, type) ==
    Verified(r, event,
             verify_webhook_signature(key, t, payload, r.sig.value, r.ts.value))

\* lines 69-99, event.get('type') evaluated to type
Classify(key, t, r, payload, event, type) ==
    IF type = Str("webhook.verification")
    THEN Outcome(RespondVerification(Get(event, "verification_token")),
                 Banner \o <<"Webhook verification request (Stripe-style)",
                             "   Token: " \o PyStr(Get(event, "verification_token")),
                             "Responding with 200 OK">>,
                 {"headers", "decode", "parse", "classify"})
    ELSE IF type = Str("url_verification")
    THEN Outcome(RespondChallenge(event),
                 Banner \o <<"URL verification request (Slack-style)",
                             "   Challenge: " \o PyStr(Get(event, "challenge")),
                             "Responding with challenge">>,
                 {"headers", "decode", "parse", "classify"})
    ELSE Verified(r, event,
                  verify_webhook_signature(key, t, payload, r.sig.value, r.ts.value))

\* lines 65-103, request.json evaluated to parsed
TryBlock(key, t, r, payload, parsed) ==
    IF parsed.raised # ""
    THEN Caught(parsed.raised, <<>>, {"headers", "decode", "parse"})
    ELSE IF ~HasGet(parsed.doc)
    THEN Caught("AttributeError", <<>>, {"headers", "decode", "parse", "classify"})
    ELSE Classify(key, t, r, payload, parsed.doc, Get(parsed.doc, "type"))

\* lines 59-103, request.data.decode('utf-8') evaluated to decoded
Decoded(key, t, r, decoded) ==
    IF decoded.raised # ""
    THEN Outcome(FaultResponse(decoded.raised), <<>>, {"headers", "decode"})
    ELSE TryBlock(key, t, r, decoded.text, GetJson(r.contentType, r.body))

\* a view function that serves one request per second
webhookRateLimited(key, t, r) ==
    IF prior.n >= 1 /\ prior.at = t
    THEN Outcome(TextResponse("Too many requests", 429), <<>>, {})
    ELSE IF MissingHeaders(r.sig, r.ts)
    THEN Outcome(TextResponse("Missing signature headers", 401), <<>>, {"headers"})
    ELSE Decoded(key, t, r, Utf8Decode(r.body))

\* a view function that refuses an X-Webhook-Id it saw on the last delivery
webhookDeduplicating(key, t, r) ==
    IF prior.n >= 1 /\ r.id.present /\ prior.req.id = r.id
    THEN Outcome(TextResponse("Duplicate delivery", 409), <<>>, {})
    ELSE IF MissingHeaders(r.sig, r.ts)
    THEN Outcome(TextResponse("Missing signature headers", 401), <<>>, {"headers"})
    ELSE Decoded(key, t, r, Utf8Decode(r.body))

webhook(key, t, r) ==
    IF MissingHeaders(r.sig, r.ts)
    THEN Outcome(TextResponse("Missing signature headers", 401), <<>>, {"headers"})
    ELSE Decoded(key, t, r, Utf8Decode(r.body))

(***************************************************************************)
(* Requests the receiver can be sent                                       *)
(***************************************************************************)
Bodies ==
    {"{\"type\":\"payment.succeeded\",\"id\":\"evt_1\"}",
     "{\"type\":\"payment.succeeded\",\"id\":\"evt_2\"}",
     " {\"type\": \"order.created\", \"data\": 5} ",
     "{\"type\":\"webhook.verification\",\"verification_token\":\"tok_123\"}",
     "{\"type\":\"webhook.verification\",\"verification_token\":\"tok_456\"}",
     "{\"type\":\"url_verification\",\"challenge\":\"abc\"}",
     "{\"type\":\"url_verification\",\"challenge\":\"xyz\"}",
     "{\"type\":\"url_verification\"}",
     "{\"type\":\"url_verification\",\"challenge\":\"whsec_your_secret_here\"}",
     "{\"type\":\"url_verification\",\"type\":\"refund.issued\"}",
     "{\"id\":\"evt_3\"}",
     "{\"type\":7}",
     "{\"type\":8}",
     "[\"payment.succeeded\"]",
     "\"payment.succeeded\"",
     "null",
     "7",
     "not json",
     "{\"type\":",
     "",
     "~",
     "{\"type\":\"url_verification\",\"challenge\":\"~\"}"}

ContentTypes == {"application/json", "text/plain"}

TimestampHeaders ==
    {NoHeader, Header(""), Header("abc"), Header("1000.5"),
     Header("600"), Header("601"), Header("699"), Header("700"), Header(" 7_00"),
     Header("1000"), Header("1300"), Header("1301"), Header("1401")}

WebhookIds == {NoHeader, Header("wh_1")}

\* two byte strings of the same length that differ in exactly one byte
OneByteApart(a, b) ==
    /\ Len(a) = Len(b)
    /\ Cardinality({i \in 1..Len(a) : Char(a, i) # Char(b, i)}) = 1

\* the header value a sender holding key computes for a timestamp and a body
SenderSignature(key, timestamp, body) ==
    "v1=" \o HmacHex(key, timestamp \o "." \o body)

\* the signature headers a request with this timestamp and body may carry:
\* the one the holder of the secret computes, forged and malformed ones, and
\* the ones the holder of the secret computed for a body one byte apart
SignatureHeaders(key, timestamp, body) ==
    {NoHeader, Header(""),
     Header(SenderSignature(key, timestamp.value, body)),
     Header(SenderSignature(ForgedKey, timestamp.value, body)),
     Header(HmacHex(key, timestamp.value \o "." \o body)),
     Header("v1=" \o HighByte)}
    \cup {Header(SenderSignature(key, timestamp.value, original)) :
             original \in {b \in Bodies : OneByteApart(b, body)}}

NoRequest ==
    [body |-> "", contentType |-> "", sig |-> NoHeader, ts |-> NoHeader, id |-> NoHeader]

NoResponse == TextResponse("", 0)

\* no delivery has been completed yet
NoPrior == [n |-> 0, req |-> NoRequest, at |-> 0, resp |-> NoResponse]

\* a startup banner that prints the secret itself
StartupLinesPrintSecret(key) ==
    <<"Python Webhook Receiver",
      "Server running on http://localhost:5000",
      "Secret configured: " \o key,
      "Waiting for webhooks...">>

\* lines 120-127: what the process prints before it serves requests
StartupLines(key) ==
    <<"Python Webhook Receiver",
      "Server running on http://localhost:5000",
      "Secret configured: " \o (IF key # DefaultSecret THEN "True" ELSE "False"),
      "Waiting for webhooks...">>

(***************************************************************************)
(* The receiver as a state machine                                         *)
(***************************************************************************)
Init ==
    /\ secret \in Secrets
    /\ now = StartTime
    /\ phase = "idle"
    /\ req = NoRequest
    /\ handledAt = 0
    /\ resp = NoResponse
    /\ log = StartupLines(secret)
    /\ trace = {}
    /\ prior = NoPrior

\* a POST /webhook arrives
Receive ==
    /\ phase = "idle"
    /\ \E body \in Bodies, contentType \in ContentTypes,
          ts \in TimestampHeaders, id \in WebhookIds :
          \E sig \in SignatureHeaders(secret, ts, body) :
              req' = [body |-> body, contentType |-> contentType,
                      sig |-> sig, ts |-> ts, id |-> id]
    /\ phase' = "received"
    /\ log' = <<>>
    /\ UNCHANGED <<secret, now, handledAt, resp, trace, prior>>

\* the view function runs on the request
Handle ==
    /\ phase = "received"
    /\ LET o == webhook(secret, now, req)
       IN  /\ resp' = o.resp
           /\ log' = o.log
           /\ trace' = o.trace
    /\ handledAt' = now
    /\ phase' = "responded"
    /\ UNCHANGED <<secret, now, req, prior>>

\* the response is sent and the worker is free again
Respond ==
    /\ phase = "responded"
    /\ phase' = "idle"
    /\ req' = NoRequest
    /\ handledAt' = 0
    /\ resp' = NoResponse
    /\ log' = <<>>
    /\ trace' = {}
    /\ UNCHANGED <<secret, now, prior>>

\* time.time() advances
Tick ==
    /\ now < StartTime + MaxTicks
    /\ now' = now + 1
    /\ UNCHANGED <<secret, phase, req, handledAt, resp, log, trace, prior>>

Next == Receive \/ Handle \/ Respond \/ Tick

Spec == Init /\ [][Next]_vars

(***************************************************************************)
(* Repeated and concurrent deliveries.  The same state machine over a      *)
(* small set of requests, with the last completed delivery recorded.       *)
(***************************************************************************)
ReplayBodies ==
    {"{\"type\":\"payment.succeeded\",\"id\":\"evt_1\"}",
     "{\"type\":\"webhook.verification\",\"verification_token\":\"tok_123\"}"}

ReplayTimestamps == {Header("700"), Header("701")}

\* each request signed over its own timestamp and body, by the holder of the
\* secret or by someone who guesses the key
ReplayRequests(key) ==
    UNION {{[body |-> body, contentType |-> contentType,
             sig |-> Header(SenderSignature(k, ts.value, body)), ts |-> ts, id |-> id] :
                contentType \in ContentTypes, id \in WebhookIds, k \in {key, ForgedKey}} :
           body \in ReplayBodies, ts \in ReplayTimestamps}

\* the delivery of request r handled at time t with the given response
Recorded(r, t, response) ==
    [n |-> prior.n + 1, req |-> r, at |-> t, resp |-> response]

\* a POST /webhook arrives, possibly the same one as before
ReceiveReplay ==
    /\ phase = "idle"
    /\ prior.n < MaxDeliveries
    /\ req' \in ReplayRequests(secret)
    /\ phase' = "received"
    /\ log' = <<>>
    /\ UNCHANGED <<secret, now, handledAt, resp, trace, prior>>

\* the response is sent and the worker is free again
RespondRecorded ==
    /\ phase = "responded"
    /\ prior' = Recorded(req, handledAt, resp)
    /\ phase' = "idle"
    /\ req' = NoRequest
    /\ handledAt' = 0
    /\ resp' = NoResponse
    /\ log' = <<>>
    /\ trace' = {}
    /\ UNCHANGED <<secret, now>>

\* while a request waits for its worker thread, another thread of the
\* server receives, handles and answers another request
Overtake ==
    /\ phase = "received"
    /\ prior.n + 1 < MaxDeliveries
    /\ \E other \in ReplayRequests(secret) :
          prior' = Recorded(other, now, webhook(secret, now, other).resp)
    /\ UNCHANGED <<secret, now, phase, req, handledAt, resp, log, trace>>

ReplayNext == ReceiveReplay \/ Handle \/ RespondRecorded \/ Overtake \/ Tick

ReplaySpec == Init /\ [][ReplayNext]_vars

(***************************************************************************)
(* Vocabulary of the properties                                            *)
(***************************************************************************)
Responded == phase = "responded"

IsDict(doc) == doc.ok /\ doc.val.t = "dict"

HasKey(doc, key) == \E i \in 1..Len(doc.keys) : doc.keys[i] = key

\* the request carries a body that Flask hands over as a keyed document
IsDocument(r) ==
    /\ r.contentType = "application/json"
    /\ Utf8Decode(r.body).raised = ""
    /\ IsDict(JsonLoads(r.body))

HasMember(r, key) == HasKey(JsonLoads(r.body), key)

Member(r, key) == Get(JsonLoads(r.body), key)

IsHandshakeA(r) == IsDocument(r) /\ Member(r, "type") = Str("webhook.verification")

IsHandshakeB(r) == IsDocument(r) /\ Member(r, "type") = Str("url_verification")

IsStandardEvent(r) ==
    /\ IsDocument(r)
    /\ HasMember(r, "type")
    /\ Member(r, "type") \notin {Str("webhook.verification"), Str("url_verification")}

BothHeaders(r) == r.sig.present /\ r.sig.value # "" /\ r.ts.present /\ r.ts.value # ""

NoHeaders(r) == ~r.sig.present /\ ~r.ts.present

TimestampParses(r) == r.ts.present /\ ParseInt(r.ts.value).ok

Age(r) == Abs(handledAt - ParseInt(r.ts.value).value)

FreshWhenHandled(r) == TimestampParses(r) /\ Age(r) <= TOLERANCE

CorrectlySigned(r) ==
    r.sig.present /\ r.sig.value = "v1=" \o HmacHex(secret, r.ts.value \o "." \o r.body)

Logged(line) == \E i \in 1..Len(log) : log[i] = line

(***************************************************************************)
(* Properties                                                              *)
(***************************************************************************)
\* C1: a request that is not a handshake is answered 200 only if its
\* timestamp was within the tolerance of the clock when it was handled and
\* its signature is the one computed from the secret, the timestamp header
\* and the raw body.
C1_AcceptOnlyIfValid ==
    (Responded /\ resp.status = 200 /\ ~IsHandshakeA(req) /\ ~IsHandshakeB(req))
        => (FreshWhenHandled(req) /\ CorrectlySigned(req))

\* C1 witness: an event of an unrecognized type has been accepted.
C1_Witness ==
    /\ Responded /\ resp.status = 200 /\ IsStandardEvent(req)
    /\ Member(req, "type") = Str("order.created")

\* C2 as stated: a webhook.verification request without signature and
\* timestamp headers is answered 200.
C2_HandshakeWithoutHeaders ==
    (Responded /\ IsHandshakeA(req) /\ NoHeaders(req)) => resp.status = 200

\* C2 amended: a webhook.verification request is answered 200 when both
\* headers are non-empty, whatever they hold, and 401 'Missing signature
\* headers' when it carries neither header.
C2_HandshakeNeedsHeaders ==
    (Responded /\ IsHandshakeA(req))
        => /\ BothHeaders(req) => resp.status = 200
           /\ NoHeaders(req) =>
                 (resp.status = 401 /\ resp.text = "Missing signature headers")

\* C2 witness: a handshake with a forged signature and an unparsable
\* timestamp has been answered 200.
C2_Witness ==
    /\ Responded /\ IsHandshakeA(req) /\ BothHeaders(req)
    /\ ~CorrectlySigned(req) /\ ~TimestampParses(req)
    /\ resp.status = 200

C4_ChallengeEchoed ==
    (Responded /\ IsHandshakeB(req) /\ HasMember(req, "challenge"))
        => /\ resp.status = 200
           /\ resp.mimetype = "application/json"
           /\ resp.json = [keys |-> <<"challenge">>,
                           vals |-> <<Member(req, "challenge")>>]

\* C4 amended: a url_verification request with challenge c that carries a
\* non-empty signature header and a non-empty timestamp header is answered
\* 200 with exactly the document {"challenge": c}.
C4_ChallengeEchoedWithHeaders ==
    (Responded /\ IsHandshakeB(req) /\ HasMember(req, "challenge") /\ BothHeaders(req))
        => /\ resp.status = 200
           /\ resp.mimetype = "application/json"
           /\ resp.json = [keys |-> <<"challenge">>,
                           vals |-> <<Member(req, "challenge")>>]

\* C4 witness: the challenge abc has been answered.
C4_Witness ==
    /\ Responded /\ IsHandshakeB(req) /\ BothHeaders(req)
    /\ Member(req, "challenge") = Str("abc")
    /\ resp.status = 200

\* C5: a correctly signed standard event whose timestamp differs from the
\* clock by more than the tolerance is answered 401 and is not accepted.
C5_StaleRejected ==
    (Responded /\ IsStandardEvent(req) /\ CorrectlySigned(req)
        /\ TimestampParses(req) /\ Age(req) > TOLERANCE)
        => (resp.status = 401 /\ "accept" \notin trace)

\* C5 witness: a correctly signed event 400 seconds old has been handled.
C5_Witness ==
    /\ Responded /\ IsStandardEvent(req) /\ CorrectlySigned(req)
    /\ TimestampParses(req)
    /\ handledAt - ParseInt(req.ts.value).value = 400

\* C6: a correctly signed standard event is accepted when its timestamp is
\* exactly 300 seconds from the clock and rejected when it is 301 seconds
\* from it, in the past and in the future alike.
C6_BoundaryInclusive ==
    (Responded /\ IsStandardEvent(req) /\ CorrectlySigned(req) /\ TimestampParses(req))
        => /\ Age(req) = 300 => resp.status = 200
           /\ Age(req) = 301 => resp.status = 401

\* C6 witness: a correctly signed event stamped 300 seconds ahead of the
\* clock has been accepted.
C6_Witness ==
    /\ Responded /\ IsStandardEvent(req) /\ CorrectlySigned(req)
    /\ TimestampParses(req)
    /\ ParseInt(req.ts.value).value - handledAt = 300
    /\ resp.status = 200

\* C7: a body that does not parse, sent with both headers, a fresh timestamp
\* and a signature computed over that body, is answered 400.
C7_UnparsableBodyIs400 ==
    (Responded /\ BothHeaders(req) /\ CorrectlySigned(req) /\ FreshWhenHandled(req)
        /\ (Utf8Decode(req.body).raised # "" \/ ~JsonLoads(req.body).ok))
        => resp.status = 400

\* C8: a keyed document without a type member is answered 400 and reaches
\* neither signature verification nor acceptance.
C8_NoTypeIsMalformed ==
    (Responded /\ BothHeaders(req) /\ IsDocument(req) /\ ~HasMember(req, "type"))
        => (resp.status = 400 /\ "verify" \notin trace /\ "accept" \notin trace)

\* C9: every request ends in a handshake answer, an acceptance or a 400/401
\* rejection; no exception leaves the handler.
C9_NoUnstructuredFault ==
    Responded => (resp.fault = "" /\ resp.status \in {200, 400, 401})

\* C10: a standard event whose timestamp header does not parse as an
\* integer is answered 401, not 400.
C10_BadTimestampIs401 ==
    (Responded /\ IsStandardEvent(req) /\ BothHeaders(req) /\ ~TimestampParses(req))
        => resp.status = 401

\* C11: a request that lacks the signature header or the timestamp header
\* is answered 401 whatever its body is, and the handler goes no further
\* than the header test: the body is neither decoded nor parsed and the
\* verifier is not called.
C11_MissingHeaderShortCircuits ==
    (Responded /\ (~req.sig.present \/ ~req.ts.present))
        => /\ resp.status = 401
           /\ resp.text = "Missing signature headers"
           /\ trace = {"headers"}

\* C11 witness: a request with a signature but no timestamp header and a body
\* that is not UTF-8 has been answered.
C11_Witness ==
    /\ Responded /\ req.sig.present /\ req.sig.value # "" /\ ~req.ts.present
    /\ Utf8Decode(req.body).raised # ""
    /\ resp.status = 401

\* the signature is the correct one for a body one byte apart from the
\* request's, under the same timestamp
SignedBeforeTampering(r) ==
    \E original \in Bodies :
        /\ OneByteApart(original, r.body)
        /\ r.sig.present
        /\ r.sig.value = "v1=" \o HmacHex(secret, r.ts.value \o "." \o original)

\* C12: when the verifier is called on a body that differs in one byte from
\* the body its signature was computed for, with the same fresh timestamp,
\* it compares the digests and finds the request not valid: the answer is
\* 401 'Invalid signature'.
C12_TamperedBodyRejected ==
    (Responded /\ "verify" \in trace /\ FreshWhenHandled(req) /\ SignedBeforeTampering(req))
        => /\ "compare" \in trace
           /\ "accept" \notin trace
           /\ resp.status = 401
           /\ resp.text = "Invalid signature"

\* C12 witness: the verifier has been called on evt_2 carrying the signature
\* of evt_1 and a fresh timestamp.
C12_Witness ==
    /\ Responded /\ "verify" \in trace /\ FreshWhenHandled(req)
    /\ SignedBeforeTampering(req)
    /\ Member(req, "id") = Str("evt_2")
    /\ resp.status = 401

\* an earlier delivery has been completed and the current one is answered
TwoDeliveries == Responded /\ prior.n >= 1

\* the earlier and the current delivery carry the same raw body, signature
\* header and timestamp header and were handled at the same clock value
SameFive ==
    /\ prior.req.body = req.body
    /\ prior.req.sig = req.sig
    /\ prior.req.ts = req.ts
    /\ prior.at = handledAt

C17_NoReplayDeduplication ==
    /\ (TwoDeliveries /\ prior.req = req /\ IsStandardEvent(req) /\ CorrectlySigned(req)
            /\ TimestampParses(req))
          => /\ (Age(req) <= TOLERANCE) => (resp.status = 200 /\ "accept" \in trace)
             /\ (Age(req) > TOLERANCE) => resp.status = 401
    /\ (TwoDeliveries /\ SameFive /\ prior.req.contentType = req.contentType)
          => prior.resp = resp

\* C17 witness: the event, carrying an X-Webhook-Id, was accepted at the
\* edge of the window and the same delivery is rejected one second later.
C17_Witness ==
    /\ TwoDeliveries /\ prior.req = req /\ req.id.present
    /\ IsStandardEvent(req) /\ CorrectlySigned(req)
    /\ prior.resp.status = 200
    /\ Age(req) > TOLERANCE
    /\ resp.status = 401

\* the delivery r handled at time t was a correctly signed standard event
\* outside the tolerance
StaleAt(r, t) ==
    /\ IsStandardEvent(r)
    /\ r.sig.value = "v1=" \o HmacHex(secret, r.ts.value \o "." \o r.body)
    /\ ParseInt(r.ts.value).ok
    /\ Abs(t - ParseInt(r.ts.value).value) > TOLERANCE

\* the delivery r handled at time t was a standard event inside the
\* tolerance whose signature was computed with another key
MismatchedAt(r, t) ==
    /\ IsStandardEvent(r)
    /\ r.sig.value = "v1=" \o HmacHex(ForgedKey, r.ts.value \o "." \o r.body)
    /\ ParseInt(r.ts.value).ok
    /\ Abs(t - ParseInt(r.ts.value).value) <= TOLERANCE

\* C18: a standard event rejected for a stale timestamp and one rejected
\* for a digest mismatch are handed to the transport with different
\* decisions, so the two responses differ.
C18_RejectionReasonsDistinguishable ==
    (TwoDeliveries /\ StaleAt(prior.req, prior.at) /\ MismatchedAt(req, handledAt))
        => prior.resp # resp

\* C14: a handshake of either type that carries both headers is answered
\* 200 without the verifier being called, whether or not the signature
\* matches, the timestamp is fresh or the timestamp parses.
C14_HandshakeSkipsVerifier ==
    (Responded /\ BothHeaders(req) /\ (IsHandshakeA(req) \/ IsHandshakeB(req)))
        => /\ resp.status = 200
           /\ trace \cap {"verify", "freshness", "digest", "compare"} = {}

\* C14 witness: a url_verification handshake with a forged signature and a
\* stale timestamp has been answered 200.
C14_Witness ==
    /\ Responded /\ IsHandshakeB(req) /\ BothHeaders(req)
    /\ ~CorrectlySigned(req) /\ TimestampParses(req) /\ Age(req) > TOLERANCE
    /\ resp.status = 200

\* C15: when the verifier is called with a timestamp outside the tolerance
\* it returns its stale result without computing the expected digest and
\* without comparing signatures.
C15_FreshnessBeforeDigest ==
    (Responded /\ "verify" \in trace /\ TimestampParses(req) /\ Age(req) > TOLERANCE)
        => /\ "freshness" \in trace
           /\ "digest" \notin trace
           /\ "compare" \notin trace
           /\ Logged("Request timestamp too old")

\* C15 witness: the verifier has turned down a correctly signed event that
\* is stamped more than the tolerance ahead of the clock.
C15_Witness ==
    /\ Responded /\ "verify" \in trace /\ CorrectlySigned(req)
    /\ TimestampParses(req)
    /\ ParseInt(req.ts.value).value - handledAt > TOLERANCE

\* C16: a body that parses to an array, a string, a number or null, sent as
\* JSON with both headers, is answered 400 whatever the signature and the
\* timestamp are, before the verifier is called.
C16_NonDocumentIs400 ==
    (Responded /\ BothHeaders(req) /\ req.contentType = "application/json"
        /\ Utf8Decode(req.body).raised = ""
        /\ JsonLoads(req.body).ok /\ JsonLoads(req.body).val.t # "dict")
        => (resp.status = 400 /\ "verify" \notin trace)

\* C16 witness: an array with a correct signature and a fresh timestamp has
\* been answered 400.
C16_Witness ==
    /\ Responded /\ BothHeaders(req) /\ req.contentType = "application/json"
    /\ JsonLoads(req.body).ok /\ JsonLoads(req.body).val.t = "list"
    /\ CorrectlySigned(req) /\ FreshWhenHandled(req)
    /\ resp.status = 400

\* the lines printed and the response body sent, as a set of strings
Emitted ==
    {log[i] : i \in 1..Len(log)} \cup {resp.text}
        \cup {resp.json.vals[i].s : i \in 1..Len(resp.json.vals)}

\* the digest the verifier computes for the request
ExpectedDigest(r) == HmacHex(secret, SigBasestring(r.ts.value, r.body))

\* the request itself carries the value in a part the receiver reflects
Carried(r, value) ==
    Contains(r.body, value) \/ (r.id.present /\ Contains(r.id.value, value))

C20_EmptyHeaderIsMissing ==
    (Responded /\ ((req.sig.present /\ req.sig.value = "")
                    \/ (req.ts.present /\ req.ts.value = "")))
        => /\ resp.status = 401
           /\ resp.text = "Missing signature headers"
           /\ trace = {"headers"}

\* C20 witness: a request with an empty signature header, a timestamp header
\* and a keyed document as its body has been answered.
C20_Witness ==
    /\ Responded /\ req.sig.present /\ req.sig.value = ""
    /\ req.ts.present /\ req.ts.value # "" /\ IsDocument(req)
    /\ resp.status = 401

====
